---- MODULE Spec2Model ----
(***************************************************************************)
(* Model of electron/serial_handler.py: a Flask application that opens the *)
(* serial port COM3 at 9600 baud when the module is loaded and exposes one *)
(* route, POST /open, whose handler writes the byte 'O' to the port and    *)
(* returns {'status': 'success'}.                                          *)
(*                                                                         *)
(* Flask's development server (app.run) handles every request in a thread *)
(* of its own, so a request is a small process: recv -> handler -> wrote   *)
(* or raised -> done, and the steps of different requests interleave.      *)
(* One call of ser.write with a one-byte buffer is one step.               *)
(***************************************************************************)
EXTENDS Integers, Sequences, FiniteSets, TLC

\* ------------------------------------------------------------------ bounds
MaxReq == 3

\* --------------------------------------------------------------- constants
Methods == {"POST", "GET", "OPTIONS"}
Paths == {"/open", "/"}

\* serial.Serial('COM3', 9600)
PortName == "COM3"
BaudRate == 9600
\* app.run(port=3000)
HttpPort == 3000
\* b'O' (DoorCmdLower is the variant b'o')
DoorCmdLower == <<111>>
DoorCmd == <<79>>

\* the value of the global ser before line 5 has run
NoHandle == [port |-> "", baudrate |-> 0, id |-> 0, is_open |-> FALSE]

\* {'status': 'success'}, as the set of its key/value pairs
SuccessBody == {<<"status", "success">>}

NoResp == [code |-> 0, ctype |-> "", body |-> {}]
Ok200 == [code |-> 200, ctype |-> "application/json", body |-> SuccessBody]
\* Flask's answers that do not come from the handler
Err500 == [code |-> 500, ctype |-> "text/html", body |-> {}]
Err404 == [code |-> 404, ctype |-> "text/html", body |-> {}]
Err405 == [code |-> 405, ctype |-> "text/html", body |-> {}]
Options200 == [code |-> 200, ctype |-> "text/html", body |-> {}]

NoReq == [method |-> "", path |-> "", pc |-> "none", resp |-> NoResp]

VARIABLES
    proc,      \* "import" | "imported" | "serving" | "failed"
    runAsMain, \* __name__ == '__main__'
    listening, \* TCP port the HTTP service listens on, 0 while it does not
    ser,       \* the module-level serial handle
    opens,     \* number of serial.Serial(...) calls that returned a handle
    linkUp,    \* the device is attached and accepts I/O through its port
    wire,      \* bytes the device has received
    log,       \* the calls of ser.write, in order: [req, h, data, ok]
    nreq,      \* number of requests that have arrived
    req        \* request id -> [method, path, pc, resp]

vars == <<proc, runAsMain, listening, ser, opens, linkUp, wire, log, nreq, req>>

ReqIds == 1..MaxReq

\* ----------------------------------------------------------------- helpers
IsPostOpen(r) == req[r].method = "POST" /\ req[r].path = "/open"

CallsOf(r) == {i \in DOMAIN log : log[i].req = r}

OkCallsOf(r) == {i \in CallsOf(r) : log[i].ok}

FailedCallsOf(r) == {i \in CallsOf(r) : ~log[i].ok}

Repeat(b, n) == [i \in 1..n |-> b]

InFlight(r) == req[r].pc \in {"recv", "handler", "wrote", "raised"}

Done(r) == req[r].pc = "done"

HandleOpen == ser # NoHandle /\ ser.is_open /\ linkUp

\* -------------------------------------------------------------------- Init
Init ==
    /\ proc = "import"
    /\ runAsMain \in BOOLEAN
    /\ listening = 0
    /\ ser = NoHandle
    /\ opens = 0
    /\ linkUp \in BOOLEAN
    /\ wire = <<>>
    /\ log = <<>>
    /\ nreq = 0
    /\ req = [r \in ReqIds |-> NoReq]

\* ----------------------------------------------------------------- startup
\* Variant of line 5: the failure to open is swallowed and startup goes on.
SerialOpenSwallow ==
    /\ proc = "import"
    /\ IF linkUp
       THEN /\ ser' = [port |-> PortName, baudrate |-> BaudRate,
                       id |-> opens + 1, is_open |-> TRUE]
            /\ opens' = opens + 1
       ELSE UNCHANGED <<ser, opens>>
    /\ proc' = "imported"
    /\ UNCHANGED <<runAsMain, listening, linkUp, wire, log, nreq, req>>

\* line 5: ser = serial.Serial('COM3', 9600).  The constructor opens the
\* port; when it cannot (device missing, busy, permission denied) it raises
\* SerialException at module level and the interpreter exits.
SerialOpen ==
    /\ proc = "import"
    /\ IF linkUp
       THEN /\ ser' = [port |-> PortName, baudrate |-> BaudRate,
                       id |-> opens + 1, is_open |-> TRUE]
            /\ opens' = opens + 1
            /\ proc' = "imported"
       ELSE /\ proc' = "failed"
            /\ UNCHANGED <<ser, opens>>
    /\ UNCHANGED <<runAsMain, listening, linkUp, wire, log, nreq, req>>

\* lines 12-13: if __name__ == '__main__': app.run(port=3000)
AppRun ==
    /\ proc = "imported"
    /\ runAsMain
    /\ proc' = "serving"
    /\ listening' = HttpPort
    /\ UNCHANGED <<runAsMain, ser, opens, linkUp, wire, log, nreq, req>>

\* ------------------------------------------------------------- environment
\* The device is unplugged (or its driver fails): from now on I/O through
\* the handle raises.  The program never reopens the port, so the handle
\* does not recover.
Disconnect ==
    /\ linkUp
    /\ linkUp' = FALSE
    /\ UNCHANGED <<proc, runAsMain, listening, ser, opens, wire, log, nreq, req>>

\* ---------------------------------------------------------------- requests
\* A client sends a request to the listening service.
Arrive(m, p) ==
    /\ proc = "serving"
    /\ nreq < MaxReq
    /\ nreq' = nreq + 1
    /\ req' = [req EXCEPT ![nreq + 1] =
                  [method |-> m, path |-> p, pc |-> "recv", resp |-> NoResp]]
    /\ UNCHANGED <<proc, runAsMain, listening, ser, opens, linkUp, wire, log>>

\* Variant of line 7 in which the methods argument is not honoured: every
\* method on /open reaches the handler.
RouteAnyMethod(r) ==
    /\ req[r].pc = "recv"
    /\ req' = [req EXCEPT ![r] =
                  IF req[r].path = "/open"
                  THEN [@ EXCEPT !.pc = "handler"]
                  ELSE [@ EXCEPT !.pc = "done", !.resp = Err404]]
    /\ UNCHANGED <<proc, runAsMain, listening, ser, opens, linkUp, wire, log, nreq>>

\* line 7: @app.route('/open', methods=['POST']).  Flask matches the path,
\* then the method; OPTIONS is answered by Flask itself, any other method on
\* /open is 405 Method Not Allowed, any other path is 404 Not Found.
Route(r) ==
    /\ req[r].pc = "recv"
    /\ req' = [req EXCEPT ![r] =
                  IF req[r].path # "/open"
                  THEN [@ EXCEPT !.pc = "done", !.resp = Err404]
                  ELSE IF req[r].method = "POST"
                  THEN [@ EXCEPT !.pc = "handler"]
                  ELSE IF req[r].method = "OPTIONS"
                  THEN [@ EXCEPT !.pc = "done", !.resp = Options200]
                  ELSE [@ EXCEPT !.pc = "done", !.resp = Err405]]
    /\ UNCHANGED <<proc, runAsMain, listening, ser, opens, linkUp, wire, log, nreq>>

\* Variants of line 9: a handler that
\* skips the write while another request's write is still unanswered, one
\* that swallows the exception, one that retries once, and one that opens
\* the port anew for every request.
WriteDebounced(r) ==
    /\ req[r].pc = "handler"
    /\ LET ok == HandleOpen
           busy == \E q \in ReqIds : q # r /\ req[q].pc = "wrote"
       IN IF busy
          THEN /\ req' = [req EXCEPT ![r].pc = "wrote"]
               /\ UNCHANGED <<log, wire>>
          ELSE /\ log' = Append(log, [req |-> r, h |-> ser.id, data |-> DoorCmd, ok |-> ok])
               /\ wire' = IF ok THEN wire \o DoorCmd ELSE wire
               /\ req' = [req EXCEPT ![r].pc = IF ok THEN "wrote" ELSE "raised"]
    /\ UNCHANGED <<proc, runAsMain, listening, ser, opens, linkUp, nreq>>

WriteSwallow(r) ==
    /\ req[r].pc = "handler"
    /\ LET ok == HandleOpen
       IN /\ log' = Append(log, [req |-> r, h |-> ser.id, data |-> DoorCmd, ok |-> ok])
          /\ wire' = IF ok THEN wire \o DoorCmd ELSE wire
          /\ req' = [req EXCEPT ![r].pc = "wrote"]
    /\ UNCHANGED <<proc, runAsMain, listening, ser, opens, linkUp, nreq>>

WriteRetry(r) ==
    /\ req[r].pc = "handler"
    /\ LET ok == HandleOpen
           call == [req |-> r, h |-> ser.id, data |-> DoorCmd, ok |-> ok]
       IN /\ log' = IF ok THEN Append(log, call) ELSE log \o <<call, call>>
          /\ wire' = IF ok THEN wire \o DoorCmd ELSE wire
          /\ req' = [req EXCEPT ![r].pc = IF ok THEN "wrote" ELSE "raised"]
    /\ UNCHANGED <<proc, runAsMain, listening, ser, opens, linkUp, nreq>>

WriteReopen(r) ==
    /\ req[r].pc = "handler"
    /\ LET ok == HandleOpen
           h == IF ok THEN [ser EXCEPT !.id = opens + 1] ELSE ser
       IN /\ ser' = h
          /\ opens' = IF ok THEN opens + 1 ELSE opens
          /\ log' = Append(log, [req |-> r, h |-> h.id, data |-> DoorCmd, ok |-> ok])
          /\ wire' = IF ok THEN wire \o DoorCmd ELSE wire
          /\ req' = [req EXCEPT ![r].pc = IF ok THEN "wrote" ELSE "raised"]
    /\ UNCHANGED <<proc, runAsMain, listening, linkUp, nreq>>

\* line 9: ser.write(b'O').  One call on the global handle; it either hands
\* the buffer to the device and returns, or raises.
Write(r) ==
    /\ req[r].pc = "handler"
    /\ LET ok == HandleOpen
       IN /\ log' = Append(log, [req |-> r, h |-> ser.id, data |-> DoorCmd, ok |-> ok])
          /\ wire' = IF ok THEN wire \o DoorCmd ELSE wire
          /\ req' = [req EXCEPT ![r].pc = IF ok THEN "wrote" ELSE "raised"]
    /\ UNCHANGED <<proc, runAsMain, listening, ser, opens, linkUp, nreq>>

\* Variants of line 10: a different payload, and a payload that depends on
\* the number of writes made so far.
ReturnOk(r) ==
    /\ req[r].pc = "wrote"
    /\ req' = [req EXCEPT ![r].pc = "done",
                          ![r].resp = [Ok200 EXCEPT !.body = {<<"status", "ok">>}]]
    /\ UNCHANGED <<proc, runAsMain, listening, ser, opens, linkUp, wire, log, nreq>>

ReturnOnce(r) ==
    /\ req[r].pc = "wrote"
    /\ req' = [req EXCEPT ![r].pc = "done",
                          ![r].resp = IF Len(log) <= 1 THEN Ok200
                                      ELSE [Ok200 EXCEPT !.body = {<<"status", "already open">>}]]
    /\ UNCHANGED <<proc, runAsMain, listening, ser, opens, linkUp, wire, log, nreq>>

\* line 10: return {'status': 'success'}; Flask turns the dict into a
\* 200 application/json response.
Return(r) ==
    /\ req[r].pc = "wrote"
    /\ req' = [req EXCEPT ![r].pc = "done", ![r].resp = Ok200]
    /\ UNCHANGED <<proc, runAsMain, listening, ser, opens, linkUp, wire, log, nreq>>

\* Variant: the failure is answered with the success payload.
ErrorSwallowed(r) ==
    /\ req[r].pc = "raised"
    /\ req' = [req EXCEPT ![r].pc = "done", ![r].resp = Ok200]
    /\ UNCHANGED <<proc, runAsMain, listening, ser, opens, linkUp, wire, log, nreq>>

\* The exception of line 9 leaves open_door; Flask answers the request with
\* 500 Internal Server Error and keeps serving.
Error500(r) ==
    /\ req[r].pc = "raised"
    /\ req' = [req EXCEPT ![r].pc = "done", ![r].resp = Err500]
    /\ UNCHANGED <<proc, runAsMain, listening, ser, opens, linkUp, wire, log, nreq>>

Next ==
    \/ SerialOpen
    \/ AppRun
    \/ Disconnect
    \/ \E m \in Methods, p \in Paths : Arrive(m, p)
    \/ \E r \in ReqIds : Route(r)
    \/ \E r \in ReqIds : Write(r)
    \/ \E r \in ReqIds : Return(r)
    \/ \E r \in ReqIds : Error500(r)

Spec == Init /\ [][Next]_vars

TypeOK ==
    /\ proc \in {"import", "imported", "serving", "failed"}
    /\ listening \in {0, HttpPort}
    /\ opens \in 0..1
    /\ nreq \in 0..MaxReq
    /\ \A r \in ReqIds : req[r].pc \in {"none", "recv", "handler", "wrote", "raised", "done"}
    /\ \A r \in ReqIds : (req[r].pc = "none") <=> (r > nreq)

\* ------------------------------------------------------------- properties
\* POST /open requests whose handler has come back from ser.write
Succeeded(r) ==
    /\ IsPostOpen(r)
    /\ \/ req[r].pc = "wrote"
       \/ req[r].pc = "done" /\ req[r].resp.code = 200

PostOpenReqs == {r \in ReqIds : req[r].pc # "none" /\ IsPostOpen(r)}

Quiescent == \A r \in ReqIds : ~InFlight(r)

\* C1: every POST /open request whose write succeeded has made exactly one
\* call of write, with the one-byte buffer 0x4F, and after k such requests
\* the device has received exactly k bytes, all of them 0x4F.
C1_OneByteO ==
    /\ \A r \in ReqIds : Succeeded(r) =>
          /\ Cardinality(CallsOf(r)) = 1
          /\ \A i \in CallsOf(r) : log[i].data = <<79>> /\ log[i].ok
    /\ wire = Repeat(79, Cardinality({r \in ReqIds : Succeeded(r)}))

C1_Witness ==
    /\ Cardinality({r \in ReqIds : Succeeded(r)}) >= 2
    /\ Len(wire) >= 2

\* C2: a POST /open request that is answered while the serial handle is open
\* (the port was opened and the device still accepts I/O through it) is
\* answered with HTTP 200 and the JSON body {"status": "success"}.
C2_OpenGives200 ==
    [][\A r \in ReqIds :
          (IsPostOpen(r) /\ req[r].pc # "done" /\ req'[r].pc = "done" /\ HandleOpen')
          => req'[r].resp = [code |-> 200, ctype |-> "application/json",
                             body |-> {<<"status", "success">>}]]_vars

C2_Witness ==
    \E r \in ReqIds :
        /\ IsPostOpen(r) /\ Done(r) /\ HandleOpen
        /\ req[r].resp.code = 200
        /\ req[r].resp.ctype = "application/json"

\* C3: with the device present and the handle open, whatever the
\* interleaving of the requests' steps, every answered POST /open request
\* has received the success response and the device has received one 0x4F
\* for each request that has passed its write, nothing lost, duplicated or
\* altered; once all are answered that is one byte per request.
C3_ConcurrentWrites ==
    HandleOpen =>
        /\ \A r \in PostOpenReqs : Done(r) => req[r].resp = Ok200
        /\ Len(wire) = Cardinality({r \in PostOpenReqs : req[r].pc \in {"wrote", "done"}})
        /\ \A i \in DOMAIN wire : wire[i] = 79
        /\ Quiescent => Len(wire) = Cardinality(PostOpenReqs)

\* two requests that were in flight together: the later one wrote first
C3_Witness ==
    /\ HandleOpen
    /\ Quiescent
    /\ \E r1, r2 \in PostOpenReqs :
          /\ r1 < r2
          /\ \E i \in CallsOf(r2), j \in CallsOf(r1) : i < j
    /\ Len(wire) = Cardinality(PostOpenReqs)

\* C4: the port is opened before the service accepts requests and a failed
\* open ends the process: the service never listens, and no request is ever
\* received, without a handle that was opened successfully.
C4_OpenBeforeServe ==
    /\ (proc = "serving" \/ listening # 0 \/ nreq > 0) =>
          (ser # NoHandle /\ ser.is_open /\ opens = 1)
    /\ (proc # "import" /\ ser = NoHandle) =>
          (proc = "failed" /\ listening = 0 /\ nreq = 0)

C4_Witness == proc = "failed" /\ ser = NoHandle /\ ~linkUp /\ runAsMain

\* C5 as stated: every answered POST /open request carries the success
\* mapping, whatever the outcome of the write.
C5_AlwaysSuccess ==
    \A r \in PostOpenReqs : Done(r) => req[r].resp.body = {<<"status", "success">>}

\* C5 as amended: an answered POST /open request carries the success mapping
\* when its write returned, and the framework's 500 response, without the
\* success mapping, when its write raised.
C5_SuccessUnlessWriteFails ==
    \A r \in PostOpenReqs : Done(r) =>
        /\ FailedCallsOf(r) = {} => req[r].resp.body = {<<"status", "success">>}
        /\ FailedCallsOf(r) # {} =>
              (req[r].resp.code = 500 /\ req[r].resp.body # {<<"status", "success">>})

C5_Witness ==
    \E r \in PostOpenReqs :
        Done(r) /\ FailedCallsOf(r) # {} /\ req[r].resp.code = 500

C7_OnlyPostOpen ==
    [][\A r \in ReqIds :
          (req'[r] # req[r] /\ ~(req'[r].method = "POST" /\ req'[r].path = "/open"))
          => /\ req'[r].pc \in {"recv", "done"}
             /\ wire' = wire
             /\ log' = log
             /\ ser' = ser]_vars

C7_Witness ==
    \E r \in ReqIds :
        /\ req[r].method = "GET" /\ req[r].path = "/open"
        /\ Done(r) /\ req[r].resp.code = 405
        /\ CallsOf(r) = {}

\* C8: a request carries the success response only if its own call of write
\* has already returned without error.
C8_WriteBeforeResponse ==
    \A r \in ReqIds :
        req[r].resp.body = {<<"status", "success">>}
        => \E i \in CallsOf(r) : log[i].ok /\ log[i].data = <<79>>

\* answered with success, although the device has gone since
C8_Witness ==
    \E r \in ReqIds :
        /\ Done(r) /\ req[r].resp.body = {<<"status", "success">>}
        /\ OkCallsOf(r) # {}
        /\ ~linkUp

\* C9: a request whose write failed has made exactly one call of write, is
\* answered (if at all) with the server error and not the success payload,
\* and leaves the service listening with the one handle opened at startup.
C9_NoRetryOnFailure ==
    \A r \in ReqIds : FailedCallsOf(r) # {} =>
        /\ Cardinality(CallsOf(r)) = 1
        /\ req[r].pc \in {"raised", "done"}
        /\ Done(r) => (req[r].resp.code = 500 /\ req[r].resp.body = {})
        /\ proc = "serving" /\ listening = 3000
        /\ opens = 1
        /\ ser = [port |-> "COM3", baudrate |-> 9600, id |-> 1, is_open |-> TRUE]

\* after a failed request was answered, a later one attempted its write on
\* the same handle
C9_Witness ==
    \E r1, r2 \in ReqIds :
        /\ r1 < r2
        /\ Done(r1) /\ req[r1].resp.code = 500
        /\ \E i \in FailedCallsOf(r1), j \in CallsOf(r2) :
              i < j /\ log[i].h = log[j].h
        /\ Cardinality(CallsOf(r2)) = 1

\* C10: at most one handle is ever opened, on COM3 at 9600 baud; once set,
\* the global is that handle, open, and every call of write of every
\* request went through it.
C10_SingleHandle ==
    /\ opens <= 1
    /\ ser # NoHandle =>
          (opens = 1 /\
           ser = [port |-> "COM3", baudrate |-> 9600, id |-> 1, is_open |-> TRUE])
    /\ \A i \in DOMAIN log : log[i].h = 1

C10_Witness ==
    /\ opens = 1
    /\ ser.port = "COM3" /\ ser.baudrate = 9600 /\ ser.is_open
    /\ \E i, j \in DOMAIN log : log[i].req # log[j].req /\ log[i].h = log[j].h
    /\ \E r \in ReqIds : Done(r) /\ CallsOf(r) # {}
====
